---- MODULE Spec2Model ----
(***************************************************************************)
(* A model of the post editor component src/components/Editor.js.          *)
(*                                                                         *)
(* Strings are sequences of one-character strings.  The component's React  *)
(* state is one variable per useState cell; the textarea's DOM selection   *)
(* is selStart/selEnd; every asynchronous handler is a small process whose *)
(* position is kept in a variable and whose continuations (the code after  *)
(* each await, each timer callback) are separate actions, since the event  *)
(* loop may run any other ready task between them.                         *)
(***************************************************************************)
EXTENDS Integers, Sequences, FiniteSets, TLC

VARIABLES
    title,          \* useState title
    body,           \* useState body; also the textarea's value (controlled)
    media,          \* useState media
    mediaLoading,   \* useState mediaLoading
    category,       \* useState category
    status,         \* useState status: 0 idle, 1 submitting, 2 success, 3 error
    isAILoading,    \* useState isAILoading
    error,          \* useState error
    selStart,       \* textarea.selectionStart
    selEnd,         \* textarea.selectionEnd
    timers,         \* pending setTimeout(...,0) callbacks of wrapText, in order
    subs,           \* the updateArticle invocations, one slot per invocation
    upload,         \* the addImage invocation in flight, if any
    aiPending,      \* number of generatePostWithAI fetches in flight
    pointsPending,  \* number of awardPoints fetches in flight
    pointsRequests, \* every award-points request issued so far, in order
    pointsLogged,   \* number of console.error calls made by awardPoints
    nCreated,       \* number of createPost calls that returned status 200
    nCreatedByUser, \* those of them made with a user connected
    nUploads,       \* number of uploads started so far
    nWraps,         \* number of toolbar wraps made so far
    post            \* the post prop: TRUE when an existing post is edited

vars == <<title, body, media, mediaLoading, category, status, isAILoading,
          error, selStart, selEnd, timers, subs, upload, aiPending,
          pointsPending, pointsRequests, pointsLogged, nCreated,
          nCreatedByUser, nUploads, nWraps, post>>

draft == <<title, body, media, category>>
dom == <<selStart, selEnd, timers>>
procs == <<subs, upload, aiPending, pointsPending, pointsRequests,
          pointsLogged, nCreated, nCreatedByUser, nUploads>>
env == <<post, nWraps>>
award == <<pointsPending, pointsRequests, pointsLogged>>
created == <<nCreated, nCreatedByUser>>

----------------------------------------------------------------------------
(* Bounds of the model *)

MaxSel == 2
MaxWraps == 1
MaxSubmits == 2
MaxUploads == 1
MaxInFlight == 2

----------------------------------------------------------------------------
(* Strings *)

\* what the user types into the title and into the body
TitleInputs == {<<>>, <<" ">>, <<"a">>}
BodyInputs == {<<>>, <<" ">>, <<"a", "b", "c">>}

Whitespace == {" ", "\n"}

Min(a, b) == IF a < b THEN a ELSE b
Max(a, b) == IF a > b THEN a ELSE b

\* String.prototype.substring(a, b): both indices clamped to [0, length],
\* swapped when a > b
Substring(s, a, b) ==
    LET ca == Max(0, Min(a, Len(s)))
        cb == Max(0, Min(b, Len(s)))
        lo == Min(ca, cb)
        hi == Max(ca, cb)
    IN  SubSeq(s, lo + 1, hi)

\* String.prototype.substring(a): to the end of the string
SubstringFrom(s, a) == Substring(s, a, Len(s))

RECURSIVE TrimStart(_)
TrimStart(s) ==
    IF s # <<>> /\ Head(s) \in Whitespace THEN TrimStart(Tail(s)) ELSE s

RECURSIVE TrimEnd(_)
TrimEnd(s) ==
    IF s # <<>> /\ s[Len(s)] \in Whitespace
    THEN TrimEnd(SubSeq(s, 1, Len(s) - 1))
    ELSE s

\* String.prototype.trim()
Trim(s) == TrimEnd(TrimStart(s))

\* JavaScript truthiness of a text: the empty string is falsy
Truthy(s) == s # <<>>

----------------------------------------------------------------------------
(* Program constants *)

Categories == {"projects"}

BoldBefore == <<"*", "*">>
BoldAfter == <<"*", "*">>
BoldDefault == <<"b", "o", "l", "d", " ", "t", "e", "x", "t">>

ItalicBefore == <<"_">>
ItalicAfter == <<"_">>
ItalicDefault == <<"i", "t", "a", "l", "i", "c", " ", "t", "e", "x", "t">>

\* the backquote character of the code fence
Tick == "tick"
CodeBefore == <<Tick, Tick, Tick, "\n">>
CodeAfter == <<"\n", Tick, Tick, Tick>>
CodeDefault == <<"c", "o", "d", "e", " ", "b", "l", "o", "c", "k">>

ImageBefore == <<"!", "[">>
ImageDefault == <<"I", "m", "a", "g", "e", " ", "d", "e", "s", "c", "r",
                  "i", "p", "t", "i", "o", "n">>

\* getIpfsLink(result): the link text of an uploaded result, one opaque token
GetIpfsLink(r) == <<r>>

ImageAfter(r) == <<"]", "(">> \o GetIpfsLink(r) \o <<")">>

\* the toolbar buttons that call wrapText with fixed arguments
ToolbarKinds == {
    [before |-> BoldBefore, after |-> BoldAfter, defaultText |-> BoldDefault],
    [before |-> ItalicBefore, after |-> ItalicAfter, defaultText |-> ItalicDefault],
    [before |-> CodeBefore, after |-> CodeAfter, defaultText |-> CodeDefault] }

UserDid == "did:user"
CREATE_POST == "POINTS_RULES.CREATE_POST"

ErrCategory == "Please select a category"
ErrTitle == "Please enter a title"
ErrContent == "Please enter content"
ErrUploadStatus == "Error uploading image. Please try again."
ErrUploadThrown == "Failed to upload image. Please try again."
ErrGenerate == "Failed to generate post. Please try again."
\* error.message || "Failed to create post": some text, never empty
ErrSubmit == "Failed to create post"

\* the existing post handed to the component when editing
PostContent == [title |-> <<"a">>, body |-> <<"a">>, media |-> <<"m0">>,
                context |-> "projects"]


\* the content returned by the AI generation endpoint
AIContent == <<"w", "e", "b", "3">>

\* res.result of the n-th upload, an opaque reference
UploadResult(n) == IF n = 1 THEN "m1" ELSE IF n = 2 THEN "m2" ELSE "m3"

----------------------------------------------------------------------------
(* The textarea *)

\* HTMLTextAreaElement.setSelectionRange(s, e) on a value of length len:
\* the end is clamped to the length, the start to the end
SetSelectionRange(len, s, e) ==
    LET e2 == Min(e, len)
        s2 == Min(s, e2)
    IN  <<s2, e2>>

\* The selection after React commits value `new` to the controlled textarea
\* holding `old`: setting a different value moves the cursor to the end.
SelectionAfterCommit(old, new, s, e) ==
    IF new = old THEN <<s, e>> ELSE <<Len(new), Len(new)>>

----------------------------------------------------------------------------
(* The asynchronous work in flight: timers, SDK calls and fetches pending *)

InFlight ==
    Len(timers)
      + Cardinality({i \in DOMAIN subs : subs[i].pc \notin {"new", "done"}})
      + (IF upload.pc = "uploading" THEN 1 ELSE 0)
      + aiPending
      + pointsPending

----------------------------------------------------------------------------
(* wrapText *)

SelectedText(text, start, end, defaultText) ==
    LET selected == Substring(text, start, end)
    IN  IF Truthy(selected) THEN selected ELSE defaultText

\* NewText with the tail taken from the start of the selection
NewTextTailFromStart(text, start, end, before, after, defaultText) ==
    Substring(text, 0, start)
        \o before
        \o SelectedText(text, start, end, defaultText)
        \o after
        \o SubstringFrom(text, start)

NewText(text, start, end, before, after, defaultText) ==
    Substring(text, 0, start)
        \o before
        \o SelectedText(text, start, end, defaultText)
        \o after
        \o SubstringFrom(text, end)

\* the closure handed to setTimeout: what it captured
TimerOf(start, before, selectedText) ==
    [start |-> start, before |-> before, selectedText |-> selectedText]

\* the arguments the timer callback passes to setSelectionRange
TimerRange(t) ==
    <<t.start + Len(t.before), t.start + Len(t.before) + Len(t.selectedText)>>

\* wrapText(before, after, defaultText): the state it leaves
WrapText(before, after, defaultText) ==
    LET newText == NewText(body, selStart, selEnd, before, after, defaultText)
        sel == SelectionAfterCommit(body, newText, selStart, selEnd)
    IN  /\ body' = newText
        /\ selStart' = sel[1]
        /\ selEnd' = sel[2]
        /\ timers' = Append(timers,
              TimerOf(selStart, before,
                      SelectedText(body, selStart, selEnd, defaultText)))

\* a toolbar button: addBold, addItalic, addCodeBlock
ToolbarWrap(k) ==
    /\ nWraps < MaxWraps
    /\ InFlight < MaxInFlight
    /\ nWraps' = nWraps + 1
    /\ WrapText(k.before, k.after, k.defaultText)
    /\ UNCHANGED <<title, media, category, mediaLoading, status,
                   isAILoading, error, procs, post>>

\* the setTimeout callback of wrapText
TimerFire ==
    /\ timers # <<>>
    /\ LET r == TimerRange(Head(timers))
           sel == SetSelectionRange(Len(body), r[1], r[2])
       IN  /\ selStart' = sel[1]
           /\ selEnd' = sel[2]
    /\ timers' = Tail(timers)
    /\ UNCHANGED <<draft, mediaLoading, status, isAILoading,
                   error, procs, env>>

----------------------------------------------------------------------------
(* Inputs *)

\* title textarea onChange
SetTitle(v) ==
    /\ v # title
    /\ title' = v
    /\ UNCHANGED <<body, media, category, mediaLoading, status, isAILoading, error, dom, procs, env>>

\* body textarea onChange: the user's edit leaves value v, cursor after it
SetBody(v) ==
    /\ v # body
    /\ body' = v
    /\ selStart' = Len(v)
    /\ selEnd' = Len(v)
    /\ UNCHANGED <<title, media, category, mediaLoading, status, isAILoading, error, timers, procs, env>>

\* the user selects a range of the body
SelectRange(s, e) ==
    /\ s <= e
    /\ e <= Len(body)
    /\ <<s, e>> # <<selStart, selEnd>>
    /\ selStart' = s
    /\ selEnd' = e
    /\ UNCHANGED <<draft, mediaLoading, status, isAILoading,
                   error, timers, procs, env>>

\* one of the category entries of the dropdown
SelectCategory(cat) ==
    /\ cat # category
    /\ category' = cat
    /\ UNCHANGED <<title, body, media, mediaLoading, status, isAILoading,
                   error, dom, procs, env>>

----------------------------------------------------------------------------
(* addImage *)

NoUpload == [pc |-> "idle", media |-> <<>>, n |-> 0]

\* the file input's onChange, up to the await of orbis.uploadMedia; with no
\* image file the handler sets and clears mediaLoading in one task
AddImage(isImage) ==
    /\ ~mediaLoading
    /\ upload.pc = "idle"
    /\ nUploads < MaxUploads
    /\ IF isImage
       THEN /\ InFlight < MaxInFlight
            /\ mediaLoading' = TRUE
            /\ upload' = [pc |-> "uploading", media |-> media, n |-> nUploads + 1]
            /\ nUploads' = nUploads + 1
       ELSE /\ mediaLoading' = FALSE
            /\ UNCHANGED <<upload, nUploads>>
    /\ UNCHANGED <<draft, status, isAILoading, error, dom,
                   subs, aiPending, award, created, env>>

\* orbis.uploadMedia resolved with status 200: the rest of addImage
AddImageUploaded ==
    /\ upload.pc = "uploading"
    /\ LET result == UploadResult(upload.n)
       IN  /\ WrapText(ImageBefore, ImageAfter(result), ImageDefault)
           /\ media' = Append(upload.media, result)
    /\ mediaLoading' = FALSE
    /\ upload' = NoUpload
    /\ UNCHANGED <<title, category, status, isAILoading, error,
                   subs, aiPending, award, created, nUploads, env>>

\* orbis.uploadMedia resolved with another status, or threw
AddImageFailed(thrown) ==
    /\ upload.pc = "uploading"
    /\ error' = IF thrown THEN ErrUploadThrown ELSE ErrUploadStatus
    /\ mediaLoading' = FALSE
    /\ upload' = NoUpload
    /\ UNCHANGED <<draft, status, isAILoading, dom,
                   subs, aiPending, award, created, nUploads, env>>

----------------------------------------------------------------------------
(* generatePostWithAI *)

\* the Generate button, up to the await of fetch; without a user it alerts
GeneratePostWithAI(user) ==
    /\ IF ~user
       THEN UNCHANGED <<isAILoading, aiPending>>
       ELSE /\ InFlight < MaxInFlight
            /\ isAILoading' = TRUE
            /\ aiPending' = aiPending + 1
    /\ UNCHANGED <<draft, mediaLoading, status, error, dom,
                   subs, upload, award, created, nUploads, env>>

\* the fetch resolved ok and its JSON was read
GenerateSucceeded ==
    /\ aiPending > 0
    /\ body' = AIContent
    /\ LET sel == SelectionAfterCommit(body, AIContent, selStart, selEnd)
       IN  selStart' = sel[1] /\ selEnd' = sel[2]
    /\ isAILoading' = FALSE
    /\ aiPending' = aiPending - 1
    /\ UNCHANGED <<title, media, category, mediaLoading, status,
                   error, timers, subs, upload, award, created,
                   nUploads, env>>

\* GenerateFailed with the loading flag cleared on the success path only
GenerateFailedKeepsLoading ==
    /\ aiPending > 0
    /\ error' = ErrGenerate
    /\ isAILoading' = isAILoading
    /\ aiPending' = aiPending - 1
    /\ UNCHANGED <<draft, mediaLoading, status, dom,
                   subs, upload, award, created, nUploads, env>>

\* the response was not ok, or fetch or response.json() threw
GenerateFailed ==
    /\ aiPending > 0
    /\ error' = ErrGenerate
    /\ isAILoading' = FALSE
    /\ aiPending' = aiPending - 1
    /\ UNCHANGED <<draft, mediaLoading, status, dom,
                   subs, upload, award, created, nUploads, env>>

----------------------------------------------------------------------------
(* awardPoints *)

PointsRequest(did, points) == [did |-> did, points |-> points]

\* AwardPoints issuing the request twice
AwardPointsTwice(did, points) ==
    /\ pointsRequests' = pointsRequests
          \o <<PointsRequest(did, points), PointsRequest(did, points)>>
    /\ pointsPending' = pointsPending + 2
    /\ UNCHANGED pointsLogged

\* awardPoints(did, points) up to its await: the request is issued
AwardPoints(did, points) ==
    /\ pointsRequests' = Append(pointsRequests, PointsRequest(did, points))
    /\ pointsPending' = pointsPending + 1
    /\ UNCHANGED pointsLogged

\* the award-points fetch resolved ok
AwardPointsSucceeded ==
    /\ pointsPending > 0
    /\ pointsPending' = pointsPending - 1
    /\ UNCHANGED <<draft, mediaLoading, status, isAILoading, error, dom, subs,
                   upload, aiPending, pointsRequests, pointsLogged, created,
                   nUploads,
                   env>>

\* AwardPointsFailed showing the failure to the user
AwardPointsFailedShown ==
    /\ pointsPending > 0
    /\ pointsPending' = pointsPending - 1
    /\ pointsLogged' = pointsLogged + 1
    /\ error' = "Failed to award points"
    /\ status' = 3
    /\ UNCHANGED <<draft, mediaLoading, isAILoading, dom, subs,
                   upload, aiPending, pointsRequests, created,
                   nUploads, env>>

\* the response was not ok, or fetch or response.json() threw: the catch
\* block logs the error and returns null
AwardPointsFailed ==
    /\ pointsPending > 0
    /\ pointsPending' = pointsPending - 1
    /\ pointsLogged' = pointsLogged + 1
    /\ UNCHANGED <<draft, mediaLoading, status, isAILoading, error, dom, subs,
                   upload, aiPending, pointsRequests, created,
                   nUploads, env>>

----------------------------------------------------------------------------
(* updateArticle *)

Slots == 1..MaxSubmits

NewSub == [pc |-> "new", result |-> "none"]

\* an invocation that has returned
DoneSub == [pc |-> "done", result |-> "none"]

\* the Post button's disabled attribute
PostDisabled ==
    category = "" \/ ~Truthy(title) \/ ~Truthy(body) \/ status = 1

\* ResetForm leaving the media references in place
ResetFormKeepsMedia ==
    /\ title' = <<>>
    /\ body' = <<>>
    /\ media' = media
    /\ category' = ""
    /\ error' = ""
    /\ LET sel == SelectionAfterCommit(body, <<>>, selStart, selEnd)
       IN  selStart' = sel[1] /\ selEnd' = sel[2]

ResetForm ==
    /\ title' = <<>>
    /\ body' = <<>>
    /\ media' = <<>>
    /\ category' = ""
    /\ error' = ""
    /\ LET sel == SelectionAfterCommit(body, <<>>, selStart, selEnd)
       IN  selStart' = sel[1] /\ selEnd' = sel[2]

\* the catch block of updateArticle, up to its await of sleep(1000)
Catch(i) ==
    /\ error' = ErrSubmit
    /\ status' = 3
    /\ subs' = [subs EXCEPT ![i] =
                  [pc |-> "sleep1000",
                   result |-> IF @.result = "none" THEN "failed" ELSE @.result]]

\* UpdateArticle validating the title and the body without trimming them
UpdateArticleNoTrim ==
    /\ ~PostDisabled
    /\ IF category = ""
       THEN error' = ErrCategory /\ UNCHANGED <<status, subs>>
       ELSE IF ~Truthy(title)
       THEN error' = ErrTitle /\ UNCHANGED <<status, subs>>
       ELSE IF ~Truthy(body)
       THEN error' = ErrContent /\ UNCHANGED <<status, subs>>
       ELSE /\ InFlight < MaxInFlight
            /\ \E i \in Slots :
                /\ subs[i].pc = "new"
                /\ \A j \in Slots : j < i => subs[j].pc # "new"
                /\ subs' = [subs EXCEPT ![i].pc = "calling"]
            /\ status' = 1
            /\ error' = ""
    /\ UNCHANGED <<draft, mediaLoading, isAILoading, dom,
                   upload, aiPending, award, created, nUploads,
                   env>>

\* a click on the Post button: updateArticle up to its first await
UpdateArticle ==
    /\ ~PostDisabled
    /\ IF category = ""
       THEN error' = ErrCategory /\ UNCHANGED <<status, subs>>
       ELSE IF ~Truthy(Trim(title))
       THEN error' = ErrTitle /\ UNCHANGED <<status, subs>>
       ELSE IF ~Truthy(Trim(body))
       THEN error' = ErrContent /\ UNCHANGED <<status, subs>>
       ELSE /\ InFlight < MaxInFlight
            /\ \E i \in Slots :
                /\ subs[i].pc = "new"
                /\ \A j \in Slots : j < i => subs[j].pc # "new"
                /\ subs' = [subs EXCEPT ![i].pc = "calling"]
            /\ status' = 1
            /\ error' = ""
    /\ UNCHANGED <<draft, mediaLoading, isAILoading, dom,
                   upload, aiPending, award, created, nUploads,
                   env>>

\* createPost / editPost resolved with status 200: up to the next await.
\* user and onPostCreated are what the handler's closure holds.
SubmitSucceeded(i, user, onPostCreated) ==
    /\ subs[i].pc = "calling"
    /\ IF ~post /\ user
       THEN AwardPoints(UserDid, CREATE_POST)
       ELSE UNCHANGED award
    /\ status' = 2
    /\ ResetForm
    /\ subs' = [subs EXCEPT ![i] =
                  [pc |-> IF onPostCreated THEN "notify" ELSE "sleep500",
                   result |-> "ok"]]
    /\ nCreated' = IF post THEN nCreated ELSE nCreated + 1
    /\ nCreatedByUser' =
          IF ~post /\ user THEN nCreatedByUser + 1 ELSE nCreatedByUser
    /\ UNCHANGED <<mediaLoading, isAILoading, timers, upload,
                   aiPending, nUploads, env>>

\* SubmitFailed clearing the form as the success path does
SubmitFailedResets(i, thrown) ==
    /\ subs[i].pc = "calling"
    /\ status' = 3
    /\ subs' = [subs EXCEPT ![i] = [pc |-> "sleep1000", result |-> "failed"]]
    /\ ResetForm
    /\ UNCHANGED <<mediaLoading, isAILoading, timers,
                   upload, aiPending, award, created, nUploads, env>>

\* createPost / editPost resolved with another status, or threw
SubmitFailed(i, thrown) ==
    /\ subs[i].pc = "calling"
    /\ Catch(i)
    /\ UNCHANGED <<draft, mediaLoading, isAILoading, dom,
                   upload, aiPending, award, created, nUploads,
                   env>>

\* onPostCreated() resolved
NotifyDone(i) ==
    /\ subs[i].pc = "notify"
    /\ subs' = [subs EXCEPT ![i].pc = "sleep500"]
    /\ UNCHANGED <<draft, mediaLoading, status, isAILoading,
                   error, dom, upload, aiPending, award, created,
                   nUploads, env>>

\* onPostCreated() rejected: control reaches the catch block
NotifyThrew(i) ==
    /\ subs[i].pc = "notify"
    /\ Catch(i)
    /\ UNCHANGED <<draft, mediaLoading, isAILoading, dom,
                   upload, aiPending, award, created, nUploads,
                   env>>

\* sleep(500) resolved: navigate unless router.pathname is the home page
Sleep500Done(i, onHome) ==
    /\ subs[i].pc = "sleep500"
    /\ subs' = [subs EXCEPT ![i] =
                  IF ~onHome THEN [@ EXCEPT !.pc = "navigating"] ELSE DoneSub]
    /\ UNCHANGED <<draft, mediaLoading, status, isAILoading,
                   error, dom, upload, aiPending, award, created,
                   nUploads, env>>

\* router.replace('/') resolved
NavigateDone(i) ==
    /\ subs[i].pc = "navigating"
    /\ subs' = [subs EXCEPT ![i] = DoneSub]
    /\ UNCHANGED <<draft, mediaLoading, status, isAILoading,
                   error, dom, upload, aiPending, award, created,
                   nUploads, env>>

\* router.replace('/') rejected: control reaches the catch block
NavigateThrew(i) ==
    /\ subs[i].pc = "navigating"
    /\ Catch(i)
    /\ UNCHANGED <<draft, mediaLoading, isAILoading, dom,
                   upload, aiPending, award, created, nUploads,
                   env>>

\* Sleep1000Done leaving the error status in place
Sleep1000DoneKeepsStatus(i) ==
    /\ subs[i].pc = "sleep1000"
    /\ status' = status
    /\ subs' = [subs EXCEPT ![i] = DoneSub]
    /\ UNCHANGED <<draft, mediaLoading, isAILoading, error,
                   dom, upload, aiPending, award, created,
                   nUploads, env>>

\* sleep(1000) resolved: the last statement of the catch block
Sleep1000Done(i) ==
    /\ subs[i].pc = "sleep1000"
    /\ status' = 0
    /\ subs' = [subs EXCEPT ![i] = DoneSub]
    /\ UNCHANGED <<draft, mediaLoading, isAILoading, error,
                   dom, upload, aiPending, award, created,
                   nUploads, env>>

----------------------------------------------------------------------------
(* The component *)

Init ==
    /\ post \in BOOLEAN
    /\ title = IF post THEN PostContent.title ELSE <<>>
    /\ body = IF post THEN PostContent.body ELSE <<>>
    /\ media = IF post THEN PostContent.media ELSE <<>>
    /\ mediaLoading = FALSE
    /\ category = IF post THEN PostContent.context ELSE ""
    /\ status = 0
    /\ isAILoading = FALSE
    /\ error = ""
    /\ selStart \in {0, Len(body)}
    /\ selEnd = selStart
    /\ timers = <<>>
    /\ subs = [i \in Slots |-> NewSub]
    /\ upload = NoUpload
    /\ aiPending = 0
    /\ pointsPending = 0
    /\ pointsRequests = <<>>
    /\ pointsLogged = 0
    /\ nCreated = 0
    /\ nCreatedByUser = 0
    /\ nUploads = 0
    /\ nWraps = 0

\* the title, body and category inputs
Input ==
    \/ \E v \in TitleInputs : SetTitle(v)
    \/ \E v \in BodyInputs : SetBody(v)
    \/ \E cat \in Categories : SelectCategory(cat)

\* the formatting toolbar and the textarea's selection
Toolbar ==
    \/ \E s, e \in 0..MaxSel : SelectRange(s, e)
    \/ \E k \in ToolbarKinds : ToolbarWrap(k)
    \/ TimerFire

\* image upload
Upload ==
    \/ \E isImage \in BOOLEAN : AddImage(isImage)
    \/ AddImageUploaded
    \/ \E thrown \in BOOLEAN : AddImageFailed(thrown)

\* AI generation
Generate ==
    \/ \E user \in BOOLEAN : GeneratePostWithAI(user)
    \/ GenerateSucceeded
    \/ GenerateFailed

\* submission and the points award it starts
Submit ==
    \/ UpdateArticle
    \/ \E i \in Slots, user, onPostCreated \in BOOLEAN :
          SubmitSucceeded(i, user, onPostCreated)
    \/ \E i \in Slots, thrown \in BOOLEAN : SubmitFailed(i, thrown)
    \/ \E i \in Slots : NotifyDone(i)
    \/ \E i \in Slots : NotifyThrew(i)
    \/ \E i \in Slots, onHome \in BOOLEAN : Sleep500Done(i, onHome)
    \/ \E i \in Slots : NavigateDone(i)
    \/ \E i \in Slots : NavigateThrew(i)
    \/ \E i \in Slots : Sleep1000Done(i)
    \/ AwardPointsSucceeded
    \/ AwardPointsFailed

\* the whole component
Next == Input \/ Toolbar \/ Upload \/ Generate \/ Submit

Spec == Init /\ [][Next]_vars

(***************************************************************************)
(* The handlers meet only in the state cells they share, and the state     *)
(* space of all of them together is out of reach, so each property is      *)
(* checked over the handlers that write the cells it reads.                *)
(***************************************************************************)

\* the component while the user writes a draft and submits it
NextSubmit == Input \/ Submit

SpecSubmit == Init /\ [][NextSubmit]_vars

\* the component while the user types and formats the body
NextEdit == (\E v \in BodyInputs : SetBody(v)) \/ Toolbar

SpecEdit == Init /\ [][NextEdit]_vars

\* the component while the user formats the body and has it generated
NextGenerate == Toolbar \/ Generate

SpecGenerate == Init /\ [][NextGenerate]_vars

\* the component with its timers firing: sleep(1000) always resolves
SpecSubmitFair ==
    SpecSubmit /\ \A i \in Slots : WF_vars(Sleep1000Done(i))

\* the component while the user writes a draft and has the body generated
NextWrite == Input \/ Generate

SpecWrite == Init /\ [][NextWrite]_vars

\* the same with the network answering: every generation fetch settles
SpecWriteFair ==
    SpecWrite /\ WF_vars(GenerateSucceeded \/ GenerateFailed)

\* the component while the user writes a draft, attaches images to it and
\* submits it
NextAttach == Input \/ Upload \/ TimerFire \/ Submit

SpecAttach == Init /\ [][NextAttach]_vars

----------------------------------------------------------------------------
(* Properties *)

\* text[i:j], element by element
Slice(text, i, j) == [n \in 1..(j - i) |-> text[i + n]]

\* the buffer the wrap helper is specified to produce
WrapOf(text, start, end, prefix, suffix, fallback) ==
    Slice(text, 0, start)
        \o prefix
        \o (IF start < end THEN Slice(text, start, end) ELSE fallback)
        \o suffix
        \o Slice(text, end, Len(text))

\* C1: a toolbar wrap sets the body to text[0:start] + prefix + S + suffix +
\* text[end:], S being the selected text, or the fallback when the selection
\* is empty
C1_WrapSetsBody ==
    [][\A k \in ToolbarKinds :
          ToolbarWrap(k) =>
              /\ selStart <= selEnd /\ selEnd <= Len(body)
              /\ body' = WrapOf(body, selStart, selEnd,
                                k.before, k.after, k.defaultText)]_vars

\* C1: an inner selection of "abc" was wrapped in bold
C1_Witness ==
    /\ body = <<"a">> \o BoldBefore \o <<"b">> \o BoldAfter \o <<"c">>
    /\ timers # <<>>

Blank(text) == Trim(text) = <<>>

\* C2: with an empty category, or a title or body that is empty or only
\* whitespace, the Post button is disabled
C2_BlankDraftDisablesPost ==
    (category = "" \/ Blank(title) \/ Blank(body)) => PostDisabled

\* C3: as many award-points requests have been issued as createPost calls
\* have returned 200, each with the user's did and the configured points
C3_RequestPerCreation ==
    /\ Len(pointsRequests) = nCreated
    /\ \A n \in DOMAIN pointsRequests :
          pointsRequests[n] = PointsRequest(UserDid, CREATE_POST)

\* C3: as many award-points requests have been issued as createPost calls
\* have returned 200 with a user connected, each with the user's did and the
\* configured points; edits, failures and creations without a user issue none
C3_RequestPerCreationByUser ==
    /\ Len(pointsRequests) = nCreatedByUser
    /\ \A n \in DOMAIN pointsRequests :
          pointsRequests[n] = PointsRequest(UserDid, CREATE_POST)

\* C3: two creations by a user, two requests
C3_Witness ==
    /\ nCreatedByUser = 2
    /\ Len(pointsRequests) = 2

\* C4: a step in which an award-points failure is logged changes neither
\* status nor the error message nor the draft, and leaves every submission
\* handler where it was
C4_PointsFailureIsSilent ==
    [][pointsLogged' # pointsLogged =>
          UNCHANGED <<status, error, draft, subs>>]_vars

\* C4: the award failed, and the creation it belongs to ran to its end with
\* status success and no error shown
C4_Witness ==
    /\ pointsLogged > 0
    /\ status = 2
    /\ error = ""
    /\ nCreatedByUser = 1
    /\ subs[1] = DoneSub
    /\ \A i \in Slots : i > 1 => subs[i] = NewSub

CallReturned200(i) ==
    subs[i].pc = "calling" /\ subs'[i].pc \in {"notify", "sleep500"}

CallFailed(i) ==
    subs[i].pc = "calling" /\ subs'[i].pc = "sleep1000"

\* C5: the step in which createPost or editPost returns 200 sets status to
\* success and clears title, body, media and category
C5_SuccessClearsDraft ==
    [][\A i \in Slots :
          CallReturned200(i) =>
              /\ status' = 2
              /\ title' = <<>> /\ body' = <<>>
              /\ media' = <<>> /\ category' = ""]_vars

\* C5: an edit succeeded and the draft, media included, is empty
C5_Witness ==
    /\ post
    /\ status = 2
    /\ \E i \in Slots : subs[i].result = "ok"
    /\ title = <<>> /\ body = <<>> /\ media = <<>> /\ category = ""

\* C6: a failed call sets the error message and status error, and status
\* then returns to idle
C6_FailureReturnsToIdle ==
    /\ [][\A i \in Slots :
             CallFailed(i) => (error' # "" /\ status' = 3)]_vars
    /\ \A i \in Slots :
          (subs[i].pc = "sleep1000" /\ subs[i].result = "failed")
             ~> (status = 0 /\ subs[i] = DoneSub)

\* C6: after a failed edit, status is idle again, the draft is the one that
\* was submitted and the Post button is enabled
C6_Witness ==
    /\ subs[1] = DoneSub
    /\ \A i \in Slots : i > 1 => subs[i] = NewSub
    /\ status = 0
    /\ error = ErrSubmit
    /\ title = PostContent.title /\ body = PostContent.body
    /\ ~PostDisabled

\* C7: status becomes success exactly when a call returns 200, becomes error
\* only when a call fails, and leaves success only for a new submission
C7_StatusFollowsCallOutcome ==
    [][/\ (status # 2 /\ status' = 2) => \E i \in Slots : CallReturned200(i)
       /\ (\E i \in Slots : CallReturned200(i)) => status' = 2
       /\ (status # 3 /\ status' = 3) => \E i \in Slots : CallFailed(i)
       /\ (status = 2 /\ status' # 2) =>
             \E i \in Slots :
                \/ subs[i].pc = "new" /\ subs'[i].pc = "calling"
                \/ CallFailed(i)]_vars

\* C8: the timer callback of a wrap selects, in the buffer as it is then,
\* exactly the wrapped text, right after the prefix
C8_SelectionCoversWrapped ==
    [][TimerFire =>
          LET t == Head(timers)
              from == t.start + Len(t.before)
          IN  /\ selStart' = from
              /\ selEnd' = from + Len(t.selectedText)
              /\ selEnd' <= Len(body')
              /\ SubSeq(body', selStart' + 1, selEnd') = t.selectedText
              /\ SubSeq(body', t.start + 1, from) = t.before]_vars

\* the steps of a failed submission: the click, the failed call, the delay
FailurePathStep(i) ==
    \/ subs[i].pc = "new" /\ subs'[i].pc = "calling"
    \/ CallFailed(i)
    \/ /\ subs[i].result = "failed"
       /\ subs[i].pc = "sleep1000" /\ subs'[i].pc = "done"

\* C9: no step of a failed submission changes title, body, media or category
C9_FailureKeepsDraft ==
    [][\A i \in Slots : FailurePathStep(i) => UNCHANGED draft]_vars

\* C9: an edit failed and ran to its end; the draft still holds the post's
\* title, body, category and media reference
C9_Witness ==
    /\ subs[1] = DoneSub
    /\ \A i \in Slots : i > 1 => subs[i] = NewSub
    /\ error = ErrSubmit
    /\ title = PostContent.title /\ body = PostContent.body
    /\ media = PostContent.media /\ category = PostContent.context

Invalid == category = "" \/ Blank(title) \/ Blank(body)

InvalidError ==
    IF category = "" THEN ErrCategory
    ELSE IF Blank(title) THEN ErrTitle
    ELSE ErrContent

\* C10: updateArticle on an invalid draft sets the matching error, starts no
\* call, requests no points and leaves status and the draft unchanged
C10_InvalidDraftRejected ==
    [][(UpdateArticle /\ Invalid) =>
          /\ error' = InvalidError
          /\ UNCHANGED <<subs, pointsRequests, pointsPending, status, draft>>]_vars

\* C10: a click with a whitespace-only title was rejected
C10_Witness ==
    /\ title = <<" ">>
    /\ error = ErrTitle
    /\ status = 0
    /\ \A i \in Slots : subs[i].pc = "new"

\* C11: a generation request of a connected user sets the loading flag, and
\* the flag is eventually cleared; the step of a failed request sets the
\* error, clears the flag and leaves the body unchanged; the step of a
\* successful request clears the flag and sets the body to the content
C11_GenerationClearsLoading ==
    /\ [][/\ aiPending' > aiPending => isAILoading'
          /\ GenerateFailed =>
                (error' = ErrGenerate /\ body' = body /\ ~isAILoading')
          /\ GenerateSucceeded =>
                (body' = AIContent /\ ~isAILoading')]_vars
    /\ (aiPending > 0) ~> ~isAILoading

\* C11: one request failed and one succeeded; none is pending and the flag
\* is clear
C11_Witness ==
    /\ error = ErrGenerate
    /\ body = AIContent
    /\ aiPending = 0
    /\ ~isAILoading

\* C12: the step of a failed upload sets the error, clears mediaLoading and
\* leaves media, body and status unchanged; the step of a successful upload
\* appends the returned result to the end of media and wraps the image
\* markdown into the body
C12_UploadOutcome ==
    [][/\ (\E thrown \in BOOLEAN : AddImageFailed(thrown)) =>
             /\ error' \in {ErrUploadStatus, ErrUploadThrown}
             /\ ~mediaLoading'
             /\ UNCHANGED <<media, body, status>>
       /\ AddImageUploaded =>
             LET result == UploadResult(upload.n)
             IN  /\ media' = Append(media, result)
                 /\ body' = WrapOf(body, selStart, selEnd, ImageBefore,
                                   ImageAfter(result), ImageDefault)]_vars

\* the invocations of updateArticle whose createPost / editPost call is pending
Calling == {i \in Slots : subs[i].pc = "calling"}

\* C13: at most one createPost / editPost call is pending, and while one is,
\* status is submitting and the Post button is disabled
C13_OneSubmissionInFlight ==
    /\ Cardinality(Calling) <= 1
    /\ Calling # {} => (status = 1 /\ PostDisabled)

\* C14: media is what it was at the last reset followed by the results of
\* the uploads that succeeded since, in completion order: a successful
\* submission empties it, a successful upload adds its result at the end of
\* what media holds then, and no other step changes it
C14_MediaIsResetThenUploads ==
    [][IF \E i \in Slots : CallReturned200(i)
       THEN media' = <<>>
       ELSE IF upload.pc = "uploading" /\ AddImageUploaded
       THEN media' = media \o <<UploadResult(upload.n)>>
       ELSE media' = media]_vars

====
